---- MODULE Spec2Model ----
(***************************************************************************)
(* Model of selector_map_numbers.py: learning CSS locators for the numbers *)
(* of a report (SELECTOR_JS, learn_selectors), replaying them              *)
(* (apply_selectors) and the orchestration in main.                        *)
(*                                                                         *)
(* Strings are sequences of one-character strings, so that trimming,       *)
(* substring search and the numeral pattern are computed, not assumed.     *)
(* A page is a DOM in document order: element i has parent[i] < i, and 0   *)
(* is the document body.                                                   *)
(***************************************************************************)
EXTENDS Integers, Sequences, FiniteSets, TLC

\* ------------------------------------------------------------------------
\* Bounds of the model
\* ------------------------------------------------------------------------
MaxDepth == 8
MaxNodes == 3
MaxUrls == 2
MaxLabels == 2

\* ------------------------------------------------------------------------
\* Strings
\* ------------------------------------------------------------------------
Digits == {"0", "1", "2", "3", "4", "5", "6", "7", "8", "9"}
Signs == {"-", "+"}

DigitVal(c) ==
    CASE c = "0" -> 0 [] c = "1" -> 1 [] c = "2" -> 2 [] c = "3" -> 3
      [] c = "4" -> 4 [] c = "5" -> 5 [] c = "6" -> 6 [] c = "7" -> 7
      [] c = "8" -> 8 [] c = "9" -> 9

Max(a, b) == IF a >= b THEN a ELSE b
Min(a, b) == IF a <= b THEN a ELSE b

RECURSIVE Pow10(_)
Pow10(k) == IF k = 0 THEN 1 ELSE 10 * Pow10(k - 1)

\* str.toLowerCase(), on the letters the model uses
LowerChar(c) == CASE c = "W" -> "w" [] c = "H" -> "h" [] c = "K" -> "k" [] OTHER -> c
ToLower(s) == [i \in 1..Len(s) |-> LowerChar(s[i])]

\* str.trim()
RECURSIVE TrimLeft(_)
TrimLeft(s) == IF s # <<>> /\ Head(s) = " " THEN TrimLeft(Tail(s)) ELSE s
RECURSIVE TrimRight(_)
TrimRight(s) ==
    IF s # <<>> /\ s[Len(s)] = " " THEN TrimRight(SubSeq(s, 1, Len(s) - 1)) ELSE s
Trim(s) == TrimRight(TrimLeft(s))

\* str.includes(n)
Includes(t, n) ==
    \E i \in 1..(Len(t) - Len(n) + 1) : SubSeq(t, i, i + Len(n) - 1) = n

\* ------------------------------------------------------------------------
\* NumberRe = [-+]?\d+(?:\.\d+)?   and float()
\* ------------------------------------------------------------------------
\* length of the run of digits of t that starts at position i
RECURSIVE DigitRun(_, _)
DigitRun(t, i) ==
    IF i <= Len(t) /\ t[i] \in Digits THEN 1 + DigitRun(t, i + 1) ELSE 0

\* end position of the match of NumberRe anchored at i, 0 when there is none
MatchEndAt(t, i) ==
    LET d0 == IF t[i] \in Signs THEN i + 1 ELSE i
        n1 == DigitRun(t, d0)
        e1 == d0 + n1 - 1
        n2 == IF e1 + 1 <= Len(t) /\ t[e1 + 1] = "." THEN DigitRun(t, e1 + 2) ELSE 0
    IN  IF n1 = 0 THEN 0 ELSE IF n2 > 0 THEN e1 + 1 + n2 ELSE e1

\* NumberRe.search(t): the leftmost match, <<>> when there is none
NumberSearch(t) ==
    LET starts == {i \in 1..Len(t) : MatchEndAt(t, i) > 0}
    IN  IF starts = {} THEN <<>>
        ELSE LET i == CHOOSE j \in starts : \A k \in starts : j <= k
             IN  SubSeq(t, i, MatchEndAt(t, i))

RECURSIVE DigitsVal(_)
DigitsVal(s) ==
    IF s = <<>> THEN 0
    ELSE 10 * DigitsVal(SubSeq(s, 1, Len(s) - 1)) + DigitVal(s[Len(s)])

\* number of decimals a float of the model keeps
FloatDecimals == 4
\* float(numeral): the value, as an integer number of 10^-FloatDecimals
ToFloat(num) ==
    LET neg  == Head(num) = "-"
        body == IF Head(num) \in Signs THEN Tail(num) ELSE num
        ni   == DigitRun(body, 1)
        ip   == SubSeq(body, 1, ni)
        fp   == IF ni < Len(body) THEN SubSeq(body, ni + 2, Len(body)) ELSE <<>>
        mag  == DigitsVal(ip) * Pow10(FloatDecimals)
                  + DigitsVal(fp) * Pow10(FloatDecimals - Len(fp))
    IN  IF neg THEN 0 - mag ELSE mag

\* Optional[float]
None == [some |-> FALSE, v |-> 0]
Some(x) == [some |-> TRUE, v |-> x]

\* ------------------------------------------------------------------------
\* The rendered page (what the browser exposes to SELECTOR_JS)
\* ------------------------------------------------------------------------
\* p.n elements in document order; for element e: p.parent[e] (0 = body),
\* p.tag[e], p.cls[e] (class tokens), p.id[e], p.own[e] (its own text),
\* p.w[e], p.h[e] (bounding box), p.style[e] ("visible", "hidden" for
\* visibility:hidden, "none" for display:none); p.bodyText is the text of
\* the body outside any element.

\* e is c or an ancestor of c
RECURSIVE IsWithin(_, _, _)
IsWithin(p, c, e) ==
    IF c = e THEN TRUE ELSE IF c = 0 THEN FALSE ELSE IsWithin(p, p.parent[c], e)

RECURSIVE TextFrom(_, _, _)
TextFrom(p, e, i) ==
    IF i > p.n THEN <<>>
    ELSE (IF IsWithin(p, i, e) THEN p.own[i] ELSE <<>>) \o TextFrom(p, e, i + 1)

\* el.innerText || el.textContent || '' : the text of e and its descendants
TextContent(p, e) ==
    IF e = 0 THEN p.bodyText \o TextFrom(p, 0, 1) ELSE TextFrom(p, e, 1)

\* el.childElementCount === 0
IsLeaf(p, e) == \A c \in 1..p.n : p.parent[c] # e

\* ------------------------------------------------------------------------
\* SELECTOR_JS
\* ------------------------------------------------------------------------
\* integer square root
ISqrt(a) == CHOOSE s \in 0..a : s * s <= a /\ (s + 1) * (s + 1) > a

\* areaScore(rect) = 1000.0 / max(1, sqrt(max(1, w*h))); the sizes of the model
\* make w*h a square whose root divides 1000, so the quotient is exact
areaScore(w, h) ==
    LET area == Max(1, w * h)
    IN  1000 \div Max(1, ISqrt(area))

isVisible(p, e) ==
    IF p.style[e] = "hidden" \/ p.style[e] = "none" THEN FALSE
    ELSE IF p.w[e] <= 0 \/ p.h[e] <= 0 THEN FALSE
    ELSE TRUE

textOf(p, e) == Trim(TextContent(p, e))

\* containsNumberLike(text, n, unit): the tier, "none" for false
containsNumberLike(text, n, unit) ==
    IF text = <<>> THEN "none"
    ELSE LET t == Trim(text)
         IN  IF t = n THEN "exact"
             ELSE IF unit # <<>> /\ (t = n \o unit \/ t = n \o <<" ">> \o unit)
                  THEN "exact_unit"
             ELSE IF Includes(t, n) THEN "partial"
             ELSE "none"

hasNeighborLabel(p, e, label) ==
    IF label = <<>> THEN FALSE
    ELSE Includes(ToLower(TextContent(p, p.parent[e])), ToLower(label))

\* the classes of a segment: those without a digit, the first two
HasDigit(c) == \E i \in 1..Len(c) : c[i] \in Digits
StableClasses(cl) ==
    LET kept == SelectSeq(cl, LAMBDA c : c # <<>> /\ ~HasDigit(c))
    IN  SubSeq(kept, 1, Min(2, Len(kept)))

\* siblings.indexOf(cur) + 1 among the children of the same tag
NthOfType(p, e) ==
    Cardinality({s \in 1..e : p.parent[s] = p.parent[e] /\ p.tag[s] = p.tag[e]})

ElSegment(p, cur) ==
    [kind |-> "el", tag |-> p.tag[cur], cls |-> StableClasses(p.cls[cur]),
     nth |-> NthOfType(p, cur), id |-> <<>>]
IdSegment(id) ==
    [kind |-> "id", tag |-> "", cls |-> <<>>, nth |-> 0, id |-> id]

\* the length test of the upward walk
PathCap == 6

\* the while loop of cssPath: one segment per visited ancestor, outermost first
RECURSIVE cssWalk(_, _, _)
cssWalk(p, cur, parts) ==
    IF cur = 0 THEN parts
    ELSE LET parts2 == <<ElSegment(p, cur)>> \o parts
         IN  IF Len(parts2) > PathCap THEN parts2
             ELSE cssWalk(p, p.parent[cur], parts2)

\* cssPath(el): a locator is the sequence of its ' > '-joined parts
cssPath(p, el) ==
    IF p.id[el] # <<>> /\ Cardinality({e \in 1..p.n : p.id[e] = p.id[el]}) = 1
    THEN <<IdSegment(p.id[el])>>
    ELSE cssWalk(p, el, <<>>)

baseScore(match) ==
    IF match = "exact" THEN 60 ELSE IF match = "exact_unit" THEN 45 ELSE 10

candidateOf(p, e, numStr, labelStr, unitStr) ==
    LET t == textOf(p, e)
        match == containsNumberLike(t, numStr, unitStr)
    IN  [elText |-> t,
         path |-> cssPath(p, e),
         rect |-> [width |-> p.w[e], height |-> p.h[e]],
         score |-> baseScore(match) + areaScore(p.w[e], p.h[e])
                     + (IF hasNeighborLabel(p, e, labelStr) THEN 20 ELSE 0)]

\* the for loop over the leaves: the candidates in enumeration order
RECURSIVE scanFrom(_, _, _, _, _)
scanFrom(p, e, numStr, labelStr, unitStr) ==
    IF e > p.n THEN <<>>
    ELSE LET rest == scanFrom(p, e + 1, numStr, labelStr, unitStr)
         IN  IF ~IsLeaf(p, e) THEN rest
             ELSE IF ~isVisible(p, e) THEN rest
             ELSE IF containsNumberLike(textOf(p, e), numStr, unitStr) = "none"
                  THEN rest
             ELSE <<candidateOf(p, e, numStr, labelStr, unitStr)>> \o rest

\* candidates.sort((a, b) => b.score - a.score): stable, descending
insertByScore(c, sorted) ==
    LET k == Cardinality({i \in 1..Len(sorted) : sorted[i].score >= c.score})
    IN  SubSeq(sorted, 1, k) \o <<c>> \o SubSeq(sorted, k + 1, Len(sorted))
RECURSIVE sortByScore(_)
sortByScore(s) ==
    IF s = <<>> THEN <<>>
    ELSE insertByScore(s[Len(s)], sortByScore(SubSeq(s, 1, Len(s) - 1)))

TopK == 5

\* page.evaluate(SELECTOR_JS with numStr, labelStr, unitStr substituted)
selectorJs(p, numStr, labelStr, unitStr) ==
    LET sorted == sortByScore(scanFrom(p, 1, numStr, labelStr, unitStr))
    IN  SubSeq(sorted, 1, Min(TopK, Len(sorted)))

\* ------------------------------------------------------------------------
\* page.eval_on_selector(sel, el => text of el)
\* ------------------------------------------------------------------------
segMatch(p, e, seg) ==
    IF seg.kind = "id" THEN p.id[e] = seg.id
    ELSE /\ p.tag[e] = seg.tag
         /\ \A i \in 1..Len(seg.cls) : \E j \in 1..Len(p.cls[e]) : p.cls[e][j] = seg.cls[i]
         /\ NthOfType(p, e) = seg.nth

\* e matches the k first parts of the locator, joined by the child combinator
RECURSIVE matchesUp(_, _, _, _)
matchesUp(p, e, path, k) ==
    /\ e # 0
    /\ segMatch(p, e, path[k])
    /\ (k = 1 \/ matchesUp(p, p.parent[e], path, k - 1))

SelectorValid(sel) == sel # <<>> /\ \A i \in 1..Len(sel) : sel[i].kind \in {"el", "id"}

querySelectorAll(p, sel) ==
    IF ~SelectorValid(sel) THEN {}
    ELSE {e \in 1..p.n : matchesUp(p, e, sel, Len(sel))}

\* raises when the selector is malformed or matches nothing; otherwise the
\* trimmed text of the first match in document order
evalOnSelector(p, sel) ==
    LET found == querySelectorAll(p, sel)
    IN  IF found = {} THEN [raised |-> TRUE, text |-> <<>>]
        ELSE LET e == CHOOSE x \in found : \A y \in found : x <= y
             IN  [raised |-> FALSE, text |-> textOf(p, e)]

\* ------------------------------------------------------------------------
\* Python values
\* ------------------------------------------------------------------------
\* a dict is the sequence of its items [k, v] in insertion order, keys unique
DictKeys(d) == {d[i].k : i \in 1..Len(d)}
DictAt(d, key) == d[CHOOSE i \in 1..Len(d) : d[i].k = key].v
\* d[key] = v
DictSet(d, key, v) ==
    IF key \in DictKeys(d)
    THEN [i \in 1..Len(d) |-> IF d[i].k = key THEN [k |-> key, v |-> v] ELSE d[i]]
    ELSE Append(d, [k |-> key, v |-> v])
\* obj.get(field, default) on a JSON object
DictGet(obj, field, default) == IF field \in DOMAIN obj THEN obj[field] ELSE default

\* ------------------------------------------------------------------------
\* learn_selectors and apply_selectors, per label
\* ------------------------------------------------------------------------
\* lines 234-246: the entry stored for lv given the ranked candidates
learnEntry(lv, ranked) ==
    IF ranked # <<>> /\ ranked[1].path # <<>>
    THEN [selector |-> ranked[1].path, type |-> "text", expect |-> lv.value_str]
    ELSE [selector |-> <<>>, type |-> "text", expect |-> lv.value_str]

\* a variant that keeps the entry of the first line of a label
learnStepKeepFirst(sels, lv, ranked) ==
    IF lv.label \in DictKeys(sels) THEN sels
    ELSE DictSet(sels, lv.label, learnEntry(lv, ranked))

learnStep(sels, lv, ranked) == DictSet(sels, lv.label, learnEntry(lv, ranked))

\* meta.get("selector") or ""
selOf(meta) == DictGet(meta, "selector", <<>>)

\* a variant that resolves the selector even when it is empty
tryBodyNoGuard(p, meta, glitch) ==
    LET r == evalOnSelector(p, selOf(meta))
        m == NumberSearch(r.text)
    IN  IF glitch \/ r.raised
        THEN [raised |-> TRUE, val |-> None, attempted |-> TRUE]
        ELSE [raised |-> FALSE,
              val |-> IF r.text # <<>> /\ m # <<>> THEN Some(ToFloat(m)) ELSE None,
              attempted |-> TRUE]

\* lines 266-276, the body of the try: glitch is an evaluation error of the
\* browser (a timeout, a detached frame) during eval_on_selector
tryBody(p, meta, glitch) ==
    LET sel == selOf(meta)
    IN  IF sel # <<>>
        THEN LET r == evalOnSelector(p, sel)
             IN  IF glitch \/ r.raised
                 THEN [raised |-> TRUE, val |-> None, attempted |-> TRUE]
                 ELSE LET m == NumberSearch(r.text)
                      IN  [raised |-> FALSE,
                           val |-> IF r.text # <<>> /\ m # <<>> THEN Some(ToFloat(m)) ELSE None,
                           attempted |-> TRUE]
        ELSE [raised |-> FALSE, val |-> None, attempted |-> FALSE]

\* a variant without the except clause
applyLabelNoCatch(p, meta, glitch) ==
    LET sel == selOf(meta)
        r == evalOnSelector(p, sel)
        m == NumberSearch(r.text)
    IN  IF sel = <<>> THEN [raised |-> FALSE, val |-> None, attempted |-> FALSE]
        ELSE IF glitch \/ r.raised
             THEN [raised |-> TRUE, val |-> None, attempted |-> TRUE]
        ELSE [raised |-> FALSE,
              val |-> IF r.text # <<>> /\ m # <<>> THEN Some(ToFloat(m)) ELSE None,
              attempted |-> TRUE]

\* lines 265-278: try ... except Exception: val = None
applyLabel(p, meta, glitch) ==
    LET b == tryBody(p, meta, glitch)
    IN  IF b.raised THEN [b EXCEPT !.raised = FALSE, !.val = None] ELSE b

\* ------------------------------------------------------------------------
\* _date_from_url
\* ------------------------------------------------------------------------
\* a URL is [id, t]: id names the page it serves, t is its query parameter t:
\* [kind |-> "absent"], [kind |-> "int", n |-> seconds] or [kind |-> "junk"]
SecondsPerDay == 86400
Unknown == [known |-> FALSE, day |-> 0]
\* the calendar date is the number of the UTC day since the epoch
dateFromUrl(u) ==
    IF u.t.kind = "int" THEN [known |-> TRUE, day |-> u.t.n \div SecondsPerDay]
    ELSE Unknown

\* a variant that replaces the list of the date key
groupOverwrite(g, d, entry) == DictSet(g, d, <<entry>>)

\* grouped.setdefault(d, []).append(entry)
groupAppend(g, d, entry) ==
    IF d \in DictKeys(g) THEN DictSet(g, d, Append(DictAt(g, d), entry))
    ELSE DictSet(g, d, <<entry>>)

\* ------------------------------------------------------------------------
\* Rendering sessions
\* ------------------------------------------------------------------------
\* session = [started, running, open]: the number of Playwright drivers started
\* so far, the drivers running, and the drivers whose browser is open
\* with sync_playwright() as p: browser = p.chromium.launch(); browser.new_page()
sessionOpen(s) ==
    [started |-> s.started + 1,
     running |-> s.running \cup {s.started + 1},
     open |-> s.open \cup {s.started + 1}]
\* browser.close()
browserClose(s, d) == [s EXCEPT !.open = @ \ {d}]
\* a variant whose exit leaves the browsers of the driver open
withExitLeak(s, d) == [s EXCEPT !.running = @ \ {d}]

\* leaving the with block, normally or by an exception: the driver is stopped,
\* and a stopped driver takes the browsers it launched with it
withExit(s, d) == [s EXCEPT !.running = @ \ {d}, !.open = @ \ {d}]

\* ------------------------------------------------------------------------
\* main
\* ------------------------------------------------------------------------
\* a variant that learns only on --learn
needLearnFlagOnly(a, f) == a.learn
\* a variant that applies whatever the flag and the output file
shouldApplyAlways(a, f) == TRUE

\* args.learn or not tpl_path.exists()
needLearn(a, f) == a.learn \/ ~f.exists
\* args.apply or not out_path.exists()
shouldApply(a, f) == a.apply \/ ~f.exists
\* json.loads(tpl_path.read_text()).get("selectors", {}), {} on any exception
readTemplate(f) ==
    IF ~f.readable THEN <<>> ELSE DictGet(f.payload, "selectors", <<>>)

\* ------------------------------------------------------------------------
\* Inputs
\* ------------------------------------------------------------------------
SeqsUpTo(S, n) == UNION {[1..k -> S] : k \in 0..n}

NoUrl == [id |-> 0, t |-> [kind |-> "absent", n |-> 0]]
Url(i, kind, n) == [id |-> i, t |-> [kind |-> kind, n |-> n]]
\* two URLs of the same day, one of the next day, one without t
Urls ==
    {Url(1, "int", 0), Url(2, "int", 86399), Url(3, "int", 86400),
     Url(3, "absent", 0)}

LV(label, value, unit) ==
    [label |-> label, value_str |-> value, value_float |-> Some(ToFloat(value)),
     unit |-> unit]
\* the LabelValue tuples parse_important can hand over
LabelValues ==
    {LV(<<"W">>, <<"5">>, <<"k">>), LV(<<"H">>, <<"7">>, <<>>), LV(<<"W">>, <<"9">>, <<>>)}

\* the pages of the site, by URL id: the reference page; the same layout with
\* other values, one of them without a numeral; a page restructured
SitePage(i) ==
    CASE i = 1 ->
           [n |-> 4, parent |-> <<0, 1, 0, 3>>,
            tag |-> <<"div", "span", "div", "span">>,
            cls |-> << <<<<"r">>>>, <<>>, <<<<"r">>>>, <<>> >>,
            id |-> << <<>>, <<>>, <<>>, <<>> >>,
            own |-> << <<"W">>, <<"5", "k">>, <<"H">>, <<"7">> >>,
            w |-> <<25, 1, 25, 1>>, h |-> <<1, 1, 1, 1>>,
            style |-> <<"visible", "visible", "visible", "visible">>,
            bodyText |-> <<>>]
      [] i = 2 ->
           [n |-> 4, parent |-> <<0, 1, 0, 3>>,
            tag |-> <<"div", "span", "div", "span">>,
            cls |-> << <<<<"r">>>>, <<>>, <<<<"r">>>>, <<>> >>,
            id |-> << <<>>, <<>>, <<>>, <<>> >>,
            own |-> << <<"W">>, <<"1", ".", "5", "k">>, <<"H">>, <<"k">> >>,
            w |-> <<25, 1, 25, 1>>, h |-> <<1, 1, 1, 1>>,
            style |-> <<"visible", "visible", "visible", "visible">>,
            bodyText |-> <<>>]
      [] OTHER ->
           [n |-> 2, parent |-> <<0, 1>>,
            tag |-> <<"div", "span">>,
            cls |-> << <<>>, <<>> >>,
            id |-> << <<>>, <<>> >>,
            own |-> << <<"W">>, <<"7">> >>,
            w |-> <<25, 1>>, h |-> <<1, 1>>,
            style |-> <<"visible", "visible">>,
            bodyText |-> <<>>]
SiteWeb == [i \in 1..3 |-> SitePage(i)]

\* a template file: absent, not JSON, JSON without "selectors", or a stored map
\* with an empty selector, a locator learned on the reference page and an
\* entry without "selector"
RowPath(k) ==
    <<[kind |-> "el", tag |-> "div", cls |-> <<<<"r">>>>, nth |-> k, id |-> <<>>],
      [kind |-> "el", tag |-> "span", cls |-> <<>>, nth |-> 1, id |-> <<>>]>>
StoredMap ==
    <<[k |-> <<"H">>, v |-> [selector |-> <<>>, type |-> "text", expect |-> <<"7">>]],
      [k |-> <<"W">>, v |-> [selector |-> RowPath(1), type |-> "text", expect |-> <<"5">>]],
      [k |-> <<"X">>, v |-> [type |-> "text", expect |-> <<"1">>]]>>
NoFile == [exists |-> FALSE, readable |-> FALSE, payload |-> [url |-> NoUrl]]
TplFiles ==
    {NoFile,
     [exists |-> TRUE, readable |-> FALSE, payload |-> [url |-> NoUrl]],
     [exists |-> TRUE, readable |-> TRUE, payload |-> [url |-> Url(1, "int", 0)]],
     [exists |-> TRUE, readable |-> TRUE,
      payload |-> [url |-> Url(1, "int", 0), selectors |-> StoredMap]]}
\* an output file of an earlier run
OldOut == [exists |-> TRUE, readable |-> TRUE, payload |-> [old |-> TRUE]]
OutFiles == {NoFile, OldOut}

\* ------------------------------------------------------------------------
\* State
\* ------------------------------------------------------------------------
VARIABLES
    args,      \* the command line: [learn, apply, records, url]
    urls,      \* _read_records_file(rec_path), when args.records
    labels,    \* parse_important(imp_path)
    web,       \* the page each URL id serves
    disk0,     \* the template and output files as the invocation found them
    tplFile,   \* the template file
    outFile,   \* the output file
    pc,        \* where main is
    template,  \* main's template
    grouped,   \* main's grouped
    ui,        \* the position of `for u in urls`
    call,      \* the running learn_selectors or apply_selectors call
    li,        \* the position of its for loop
    selectors, \* learn_selectors' selectors
    topk,      \* learn_selectors' topk
    results,   \* apply_selectors' results
    session,   \* the Playwright drivers and browsers
    learned,   \* the URLs learn_selectors was called with
    applied,   \* the (url, selectors) apply_selectors was called with
    resolved,  \* the labels eval_on_selector was called for in this apply call
    glitched,  \* the labels whose eval_on_selector hit an evaluation error
    returned,  \* the results the apply_selectors calls returned, in order
    escaped    \* where an exception left main: "none", "goto", "evaluate", "label"

vars ==
    <<args, urls, labels, web, disk0, tplFile, outFile, pc, template, grouped, ui,
      call, li, selectors, topk, results, session, learned, applied, resolved,
      glitched, returned, escaped>>

NoCall == [fn |-> "none", url |-> NoUrl, at |-> "none", driver |-> 0]

Fresh ==
    /\ tplFile = disk0.tpl
    /\ outFile = disk0.out
    /\ pc = "start"
    /\ template = <<>>
    /\ grouped = <<>>
    /\ ui = 1
    /\ call = NoCall
    /\ li = 1
    /\ selectors = <<>>
    /\ topk = <<>>
    /\ results = <<>>
    /\ session = [started |-> 0, running |-> {}, open |-> {}]
    /\ learned = <<>>
    /\ applied = <<>>
    /\ resolved = <<>>
    /\ glitched = {}
    /\ returned = <<>>
    /\ escaped = "none"

\* Single-target invocations take any flags and files. The batch branch of main
\* (lines 345-381) reads neither --apply nor the old output file, so its
\* invocations are taken without --apply and without an old output file.
Init ==
    /\ \E l \in BOOLEAN :
          \/ \E a \in BOOLEAN, u \in Urls \cup {NoUrl} :
                /\ args = [learn |-> l, apply |-> a, records |-> FALSE, url |-> u]
                /\ urls = <<>>
                /\ disk0 \in [tpl : TplFiles, out : OutFiles]
          \/ /\ args = [learn |-> l, apply |-> FALSE, records |-> TRUE, url |-> NoUrl]
             /\ urls \in SeqsUpTo(Urls, MaxUrls)
             /\ disk0 \in [tpl : TplFiles, out : {NoFile}]
    /\ labels \in SeqsUpTo(LabelValues, MaxLabels)
    /\ web = SiteWeb
    /\ Fresh

\* the reference URL: the one learning runs against
RefUrl == IF args.records THEN urls[1] ELSE args.url
Page == web[call.url.id]

\* lines 337-350 and 384-386: nothing to do without a URL
Start ==
    /\ pc = "start"
    /\ pc' = IF args.records
             THEN (IF urls = <<>> THEN "done" ELSE "template")
             ELSE (IF args.url = NoUrl THEN "done" ELSE "template")
    /\ UNCHANGED <<args, urls, labels, web, disk0, tplFile, outFile, template,
                   grouped, ui, call, li, selectors, topk, results, session,
                   learned, applied, resolved, glitched, returned, escaped>>

\* lines 362-367 and 397-402
LoadTemplate ==
    /\ pc = "template"
    /\ ~needLearn(args, tplFile)
    /\ template' = readTemplate(tplFile)
    /\ pc' = "apply"
    /\ UNCHANGED <<args, urls, labels, web, disk0, tplFile, outFile, grouped, ui,
                   call, li, selectors, topk, results, session, learned, applied,
                   resolved, glitched, returned, escaped>>

\* lines 355 and 390, then 219-222
LearnEnter ==
    /\ pc = "template"
    /\ needLearn(args, tplFile)
    /\ pc' = "learn"
    /\ call' = [fn |-> "learn", url |-> RefUrl, at |-> "goto",
                driver |-> session.started + 1]
    /\ session' = sessionOpen(session)
    /\ selectors' = <<>>
    /\ learned' = Append(learned, RefUrl)
    /\ UNCHANGED <<args, urls, labels, web, disk0, tplFile, outFile, template,
                   grouped, ui, li, topk, results, applied, resolved, glitched, returned, escaped>>

\* lines 223 and 260: page.goto returns
Goto ==
    /\ call.fn # "none"
    /\ call.at = "goto"
    /\ call' = [call EXCEPT !.at = "loop"]
    /\ li' = 1
    /\ UNCHANGED <<args, urls, labels, web, disk0, tplFile, outFile, pc, template,
                   grouped, ui, selectors, topk, results, session, learned,
                   applied, resolved, glitched, returned, escaped>>

\* lines 223, 233 and 260: page.goto or page.evaluate raises; the exception
\* leaves the with block and the call, and main does not catch it
CallRaises ==
    /\ call.fn # "none"
    /\ \/ call.at = "goto"
       \/ call.fn = "learn" /\ call.at = "loop" /\ li <= Len(labels)
    /\ session' = withExit(session, call.driver)
    /\ call' = NoCall
    /\ pc' = "crashed"
    /\ escaped' = IF call.at = "goto" THEN "goto" ELSE "evaluate"
    /\ UNCHANGED <<args, urls, labels, web, disk0, tplFile, outFile, template,
                   grouped, ui, li, selectors, topk, results, learned, applied,
                   resolved, glitched, returned>>

\* lines 225-246: one iteration of the loop over the labels
LearnLabel ==
    /\ call.fn = "learn"
    /\ call.at = "loop"
    /\ li <= Len(labels)
    /\ LET lv == labels[li]
           ranked == selectorJs(Page, lv.value_str, lv.label, lv.unit)
       IN  /\ topk' = ranked
           /\ selectors' = learnStep(selectors, lv, ranked)
    /\ li' = li + 1
    /\ UNCHANGED <<args, urls, labels, web, disk0, tplFile, outFile, pc, template,
                   grouped, ui, call, results, session, learned, applied,
                   resolved, glitched, returned, escaped>>

\* lines 247-248, and the assignment of lines 355 and 390
LearnReturn ==
    /\ call.fn = "learn"
    /\ call.at = "loop"
    /\ li > Len(labels)
    /\ session' = withExit(browserClose(session, call.driver), call.driver)
    /\ template' = selectors
    /\ call' = NoCall
    /\ pc' = "save"
    /\ UNCHANGED <<args, urls, labels, web, disk0, tplFile, outFile, grouped, ui,
                   li, selectors, topk, results, learned, applied, resolved,
                   glitched, returned, escaped>>

\* lines 356-361 and 391-396
SaveTemplate ==
    /\ pc = "save"
    /\ tplFile' = [exists |-> TRUE, readable |-> TRUE,
                   payload |-> [url |-> RefUrl, selectors |-> template]]
    /\ pc' = "apply"
    /\ UNCHANGED <<args, urls, labels, web, disk0, outFile, template, grouped, ui,
                   call, li, selectors, topk, results, session, learned, applied,
                   resolved, glitched, returned, escaped>>

\* lines 370-371 and 404-405, then 256-259
ApplyEnter ==
    /\ pc = "apply"
    /\ IF args.records THEN ui <= Len(urls) ELSE shouldApply(args, outFile)
    /\ LET u == IF args.records THEN urls[ui] ELSE args.url
       IN  /\ call' = [fn |-> "apply", url |-> u, at |-> "goto",
                       driver |-> session.started + 1]
           /\ applied' = Append(applied, [url |-> u, selectors |-> template])
    /\ pc' = "in_apply"
    /\ session' = sessionOpen(session)
    /\ results' = <<>>
    /\ resolved' = <<>>
    /\ glitched' = {}
    /\ UNCHANGED <<args, urls, labels, web, disk0, tplFile, outFile, template,
                   grouped, ui, li, selectors, topk, learned, returned, escaped>>

\* the effect of one iteration of lines 262-279 whose outcome is r
applyStore(r, key) ==
    IF r.raised
    THEN /\ session' = withExit(session, call.driver)
         /\ call' = NoCall
         /\ pc' = "crashed"
         /\ escaped' = "label"
         /\ UNCHANGED <<results, resolved, li>>
    ELSE /\ results' = DictSet(results, key, r.val)
         /\ resolved' = IF r.attempted THEN Append(resolved, key) ELSE resolved
         /\ li' = li + 1
         /\ UNCHANGED <<session, call, pc, escaped>>

\* lines 262-279: one iteration of the loop over the items of the map
ApplyLabel ==
    /\ call.fn = "apply"
    /\ call.at = "loop"
    /\ li <= Len(template)
    /\ applyStore(applyLabel(Page, template[li].v, FALSE), template[li].k)
    /\ UNCHANGED <<args, urls, labels, web, disk0, tplFile, outFile, template,
                   grouped, ui, selectors, topk, learned, applied, glitched, returned>>

\* lines 262-279, when eval_on_selector hits an evaluation error
ApplyLabelError ==
    /\ call.fn = "apply"
    /\ call.at = "loop"
    /\ li <= Len(template)
    /\ selOf(template[li].v) # <<>>
    /\ glitched' = glitched \cup {template[li].k}
    /\ applyStore(applyLabel(Page, template[li].v, TRUE), template[li].k)
    /\ UNCHANGED <<args, urls, labels, web, disk0, tplFile, outFile, template,
                   grouped, ui, selectors, topk, learned, applied, returned>>

\* lines 280-281, then 372-373 in batch mode
ApplyReturn ==
    /\ call.fn = "apply"
    /\ call.at = "loop"
    /\ li > Len(template)
    /\ session' = withExit(browserClose(session, call.driver), call.driver)
    /\ call' = NoCall
    /\ returned' = Append(returned, results)
    /\ IF args.records
       THEN /\ grouped' = groupAppend(grouped, dateFromUrl(call.url),
                                      [url |-> call.url, labels |-> results])
            /\ ui' = ui + 1
            /\ pc' = "apply"
       ELSE /\ pc' = "write"
            /\ UNCHANGED <<grouped, ui>>
    /\ UNCHANGED <<args, urls, labels, web, disk0, tplFile, outFile, template, li,
                   selectors, topk, results, learned, applied, resolved, glitched, escaped>>

\* lines 375-381
WriteRecords ==
    /\ pc = "apply"
    /\ args.records
    /\ ui > Len(urls)
    /\ outFile' = [exists |-> TRUE, readable |-> TRUE,
                   payload |-> [records |-> grouped]]
    /\ pc' = "done"
    /\ UNCHANGED <<args, urls, labels, web, disk0, tplFile, template, grouped, ui,
                   call, li, selectors, topk, results, session, learned, applied,
                   resolved, glitched, returned, escaped>>

\* lines 406-411
WriteLabels ==
    /\ pc = "write"
    /\ outFile' = [exists |-> TRUE, readable |-> TRUE,
                   payload |-> [labels |-> results]]
    /\ pc' = "done"
    /\ UNCHANGED <<args, urls, labels, web, disk0, tplFile, template, grouped, ui,
                   call, li, selectors, topk, results, session, learned, applied,
                   resolved, glitched, returned, escaped>>

\* line 404, when the condition is false
SkipApply ==
    /\ pc = "apply"
    /\ ~args.records
    /\ ~shouldApply(args, outFile)
    /\ pc' = "done"
    /\ UNCHANGED <<args, urls, labels, web, disk0, tplFile, outFile, template,
                   grouped, ui, call, li, selectors, topk, results, session,
                   learned, applied, resolved, glitched, returned, escaped>>

Next ==
    \/ Start
    \/ LoadTemplate
    \/ LearnEnter
    \/ Goto
    \/ CallRaises
    \/ LearnLabel
    \/ LearnReturn
    \/ SaveTemplate
    \/ ApplyEnter
    \/ ApplyLabel
    \/ ApplyLabelError
    \/ ApplyReturn
    \/ WriteRecords
    \/ WriteLabels
    \/ SkipApply

Spec == Init /\ [][Next]_vars

\* ------------------------------------------------------------------------
\* Properties of apply_selectors
\* ------------------------------------------------------------------------
Range(q) == {q[i] : i \in 1..Len(q)}
\* the last apply_selectors call has returned
Returned == call.fn = "none" /\ applied # <<>> /\ pc # "crashed"
\* the page the last apply_selectors call renders
AppliedPage == web[applied[Len(applied)].url.id]

\* C1: a label whose stored selector is empty or missing gets null, without
\* any call of eval_on_selector for it and without an exception leaving the
\* loop at it
EmptySelectorYieldsNull ==
    /\ \A i \in 1..Len(template) :
          selOf(template[i].v) = <<>> =>
             /\ template[i].k \notin Range(resolved)
             /\ template[i].k \in DictKeys(results) =>
                   DictAt(results, template[i].k) = None
             /\ Returned => template[i].k \in DictKeys(results)
    /\ escaped = "label" => selOf(template[li].v) # <<>>

\* an apply call returned a map with an empty selector, an entry without
\* selector and a selector that resolved to a number
EmptySelectorWitness ==
    /\ Returned
    /\ \E i, j, k \in 1..Len(template) :
          /\ "selector" \in DOMAIN template[i].v
          /\ template[i].v.selector = <<>>
          /\ "selector" \notin DOMAIN template[j].v
          /\ DictAt(results, template[i].k) = None
          /\ DictAt(results, template[j].k) = None
          /\ DictAt(results, template[k].k).some

\* what section 4.5 of the design asks of one entry on a page
ExpectedValue(p, meta) ==
    IF "selector" \notin DOMAIN meta THEN None
    ELSE IF meta.selector = <<>> THEN None
    ELSE LET found == querySelectorAll(p, meta.selector)
         IN  IF found = {} THEN None
             ELSE LET e == CHOOSE x \in found : \A y \in found : x <= y
                      m == NumberSearch(Trim(TextContent(p, e)))
                  IN  IF m = <<>> THEN None ELSE Some(ToFloat(m))

\* C6: every label is resolved on its own: a label whose resolution failed is
\* null, every other label has the value its entry alone gives on the page, no
\* exception leaves the loop, the result has exactly the keys of the map, and
\* no label is resolved twice
LabelsIndependent ==
    /\ applied # <<>> =>
          \A key \in DictKeys(results) :
             DictAt(results, key) =
                IF key \in glitched THEN None
                ELSE ExpectedValue(AppliedPage, DictAt(template, key))
    /\ Returned => DictKeys(results) = DictKeys(template)
    /\ escaped # "label"
    /\ \A i, j \in 1..Len(resolved) : i # j => resolved[i] # resolved[j]
    /\ \A i, j \in 1..Len(results) : i # j => results[i].k # results[j].k

\* an apply call returned with one label failed (an evaluation error, no
\* element, or no numeral) and a later label resolved to a number
LabelsIndependentWitness ==
    /\ Returned
    /\ \E i, j \in 1..Len(results) :
          /\ i < j
          /\ results[i].k \in Range(resolved)
          /\ results[i].v = None
          /\ results[j].v.some

\* ------------------------------------------------------------------------
\* Properties of learn_selectors
\* ------------------------------------------------------------------------
LabelSet == {labels[i].label : i \in 1..Len(labels)}
LastLine(label) ==
    CHOOSE i \in 1..Len(labels) :
       /\ labels[i].label = label
       /\ \A j \in 1..Len(labels) : labels[j].label = label => j <= i
RankedFor(lv) == selectorJs(web[RefUrl.id], lv.value_str, lv.label, lv.unit)

\* C4: the map learn_selectors returns has exactly one entry per distinct
\* label; the entry is the one of the last line of the label: type "text",
\* expect the line's value_str, selector empty when the scorer found nothing
\* and the winner's locator otherwise
OneEntryPerLabel ==
    pc = "save" =>
       /\ DictKeys(template) = LabelSet
       /\ \A i, j \in 1..Len(template) : i # j => template[i].k # template[j].k
       /\ \A key \in LabelSet :
             LET lv == labels[LastLine(key)]
                 entry == DictAt(template, key)
                 ranked == RankedFor(lv)
             IN  /\ entry.type = "text"
                 /\ entry.expect = lv.value_str
                 /\ entry.selector = IF ranked = <<>> THEN <<>> ELSE ranked[1].path

\* a label of two lines: the first was found on the page, the second was not,
\* and the entry is the miss of the second
OneEntryPerLabelWitness ==
    /\ pc = "save"
    /\ Len(labels) = 2
    /\ labels[1].label = labels[2].label
    /\ RankedFor(labels[1]) # <<>>
    /\ RankedFor(labels[2]) = <<>>
    /\ DictAt(template, labels[2].label).selector = <<>>
    /\ DictAt(template, labels[2].label).expect = labels[2].value_str

\* ------------------------------------------------------------------------
\* Properties of main
\* ------------------------------------------------------------------------
\* the entries batch mode has to write, in list order
BatchEntries == [i \in 1..Len(urls) |-> [url |-> urls[i], labels |-> returned[i]]]
WithDate(entries, d) == SelectSeq(entries, LAMBDA e : dateFromUrl(e.url) = d)

\* C7: in batch mode apply_selectors is called for the URLs of the list in list
\* order, one call at a time, each with the same map; the records written hold
\* one entry per URL under the date key of the URL, in list order
BatchInListOrder ==
    args.records =>
       /\ Len(applied) <= Len(urls)
       /\ \A i \in 1..Len(applied) :
             /\ applied[i].url = urls[i]
             /\ applied[i].selectors = applied[1].selectors
       /\ Len(applied) - Len(returned) \in {0, 1}
       /\ pc # "crashed" /\ call.fn # "apply" => Len(applied) = Len(returned)
       /\ pc = "done" /\ urls # <<>> =>
             /\ Len(applied) = Len(urls)
             /\ outFile.exists
             /\ DOMAIN outFile.payload = {"records"}
             /\ LET g == outFile.payload.records
                IN  /\ DictKeys(g) = {dateFromUrl(urls[i]) : i \in 1..Len(urls)}
                    /\ \A i, j \in 1..Len(g) : i # j => g[i].k # g[j].k
                    /\ \A d \in DictKeys(g) : DictAt(g, d) = WithDate(BatchEntries, d)

\* a batch of two different URLs of the same day was written under one key
BatchInListOrderWitness ==
    /\ args.records
    /\ pc = "done"
    /\ Len(urls) = 2
    /\ urls[1] # urls[2]
    /\ dateFromUrl(urls[1]) = dateFromUrl(urls[2])
    /\ dateFromUrl(urls[1]).known
    /\ Len(DictAt(outFile.payload.records, dateFromUrl(urls[1]))) = 2
    /\ returned[1] # returned[2]

SingleDone == ~args.records /\ args.url # NoUrl /\ pc = "done"
WrittenLabels == [exists |-> TRUE, readable |-> TRUE, payload |-> [labels |-> results]]

\* C8 as the design states it: every single-target invocation with a URL that
\* ends has applied the map to the URL and written the result
SingleAlwaysApplies ==
    SingleDone =>
       /\ Len(applied) = 1
       /\ applied[1].url = args.url
       /\ outFile = WrittenLabels

\* C8, amended: a single-target invocation with a URL that ends has applied the
\* ready map to the URL once and written the result when --apply was given or
\* no output file existed; otherwise it has applied nothing and the output
\* file is as it was
SingleAppliesWhenAsked ==
    SingleDone =>
       IF args.apply \/ ~disk0.out.exists
       THEN /\ applied = <<[url |-> args.url, selectors |-> template]>>
            /\ Len(returned) = 1
            /\ outFile = WrittenLabels
       ELSE /\ applied = <<>>
            /\ returned = <<>>
            /\ outFile = disk0.out

\* an invocation without --apply found an output file and ended without applying
SingleSkipsWitness ==
    /\ SingleDone
    /\ ~args.apply
    /\ disk0.out.exists
    /\ applied = <<>>
    /\ outFile = OldOut

HasRef == IF args.records THEN urls # <<>> ELSE args.url # NoUrl
PastTemplate == HasRef /\ pc \notin {"start", "template"}
SkipsLearn == disk0.tpl.exists /\ ~args.learn
FileSelectors(f) ==
    IF f.readable /\ "selectors" \in DOMAIN f.payload THEN f.payload.selectors ELSE <<>>

\* C9: learning is skipped exactly when a template file exists and --learn was
\* not given; then the file stays as it was and its selectors (the empty map
\* when it cannot be read) are the map applied. Otherwise learn_selectors is
\* called once, with the reference URL, and before any apply call the file
\* holds the reference URL and the learned map alone
LearnSkippedIffStored ==
    /\ Len(learned) <= 1
    /\ PastTemplate => ((learned = <<>>) <=> SkipsLearn)
    /\ SkipsLearn =>
          /\ tplFile = disk0.tpl
          /\ PastTemplate => template = FileSelectors(disk0.tpl)
          /\ \A i \in 1..Len(applied) : applied[i].selectors = FileSelectors(disk0.tpl)
    /\ ~SkipsLearn =>
          /\ PastTemplate => learned = <<RefUrl>>
          /\ tplFile # disk0.tpl \/ applied # <<>> =>
                /\ tplFile = [exists |-> TRUE, readable |-> TRUE,
                              payload |-> [url |-> RefUrl, selectors |-> template]]
                /\ DictKeys(template) = LabelSet
          /\ \A i \in 1..Len(applied) : applied[i].selectors = template

\* --learn with a stored map: the file was overwritten, the stored entries are
\* gone, and an apply call followed
LearnOverwritesWitness ==
    /\ args.learn
    /\ "selectors" \in DOMAIN disk0.tpl.payload
    /\ labels # <<>>
    /\ applied # <<>>
    /\ tplFile.payload.url = RefUrl
    /\ DictKeys(tplFile.payload.selectors) # DictKeys(disk0.tpl.payload.selectors)
    /\ DictKeys(tplFile.payload.selectors) = LabelSet

Shapes(n) ==
    {f \in [1..n -> 0..(n - 1)] :
        \A i \in 1..n :
           /\ f[i] < i
           /\ i > 1 => (f[i] = 0 \/ IsWithin([parent |-> f], i - 1, f[i]))}

Tags == {"div", "span"}
Boxes ==
    {[w |-> 1, h |-> 1, style |-> "visible"],
     [w |-> 25, h |-> 25, style |-> "visible"],
     [w |-> 0, h |-> 25, style |-> "visible"],
     [w |-> 25, h |-> 25, style |-> "none"],
     [w |-> 25, h |-> 25, style |-> "hidden"]}
LeafTexts ==
    {<<"5">>, <<" ", "5">>, <<"5", "k">>, <<"5", " ", "k">>, <<"1", " ", "5">>,
     <<"1", "5">>, <<"7">>, <<>>}
ClassLists ==
    {<<>>, <<<<"a">>>>, <<<<"b", "1">>, <<"a">>, <<"c">>, <<"d">>>>}

\* a chain of d nested divs around one leaf that reads 5; the leaf has an id
\* of its own, an id its parent has too, or none
ChainPages ==
    {[n |-> d,
      parent |-> [i \in 1..d |-> i - 1],
      tag |-> [i \in 1..d |-> "div"],
      cls |-> [i \in 1..d |-> IF i = d THEN c ELSE <<>>],
      id |-> [i \in 1..d |-> IF i = d /\ m # "none" THEN <<"x">>
                             ELSE IF i = d - 1 /\ m = "shared" THEN <<"x">>
                             ELSE <<>>],
      own |-> [i \in 1..d |-> IF i = d THEN <<"5">> ELSE <<>>],
      w |-> [i \in 1..d |-> 1], h |-> [i \in 1..d |-> 1],
      style |-> [i \in 1..d |-> "visible"],
      bodyText |-> <<>>] :
        d \in 1..MaxDepth, c \in ClassLists, m \in {"none", "own", "shared"}}

\* a div, with or without the label in it, around the first of two leaves, the
\* second beside the div: any text and any box for each leaf
RankPages ==
    {[n |-> 3,
      parent |-> <<0, 1, 0>>,
      tag |-> <<"div", "span", "span">>,
      cls |-> <<<<>>, <<>>, <<>>>>,
      id |-> <<<<>>, <<>>, <<>>>>,
      own |-> <<lt, t1, t2>>,
      w |-> <<25, b1.w, b2.w>>,
      h |-> <<25, b1.h, b2.h>>,
      style |-> <<"visible", b1.style, b2.style>>,
      bodyText |-> <<>>] :
        lt \in {<<>>, <<"W">>}, t1 \in LeafTexts, t2 \in LeafTexts,
        b1 \in Boxes, b2 \in Boxes}

\* every document order and tagging of up to MaxNodes elements whose leaves
\* read 5 or 7
StructPages ==
    UNION {
      {[n |-> n,
        parent |-> f,
        tag |-> tg,
        cls |-> [i \in 1..n |-> <<>>],
        id |-> [i \in 1..n |-> <<>>],
        own |-> [i \in 1..n |-> IF \A c \in 1..n : f[c] # i THEN tx[i] ELSE <<>>],
        w |-> [i \in 1..n |-> 1], h |-> [i \in 1..n |-> 1],
        style |-> [i \in 1..n |-> "visible"],
        bodyText |-> <<>>] :
          f \in Shapes(n), tg \in [1..n -> Tags], tx \in [1..n -> {<<"5">>, <<"7">>}]} :
      n \in 1..MaxNodes}

Pages == ChainPages \cup RankPages \cup StructPages

\* one report line, with and without a unit
LearnLabels == {<<LV(<<"W">>, <<"5">>, <<"k">>)>>, <<LV(<<"W">>, <<"5">>, <<>>)>>}

\* --learn --apply on one URL, no template and no output file yet
InitLearn ==
    /\ args = [learn |-> TRUE, apply |-> TRUE, records |-> FALSE,
               url |-> Url(1, "int", 0)]
    /\ urls = <<>>
    /\ labels \in LearnLabels
    /\ \E p \in Pages : web = [i \in 1..1 |-> p]
    /\ disk0 = [tpl |-> NoFile, out |-> NoFile]
    /\ Fresh

\* the steps of an invocation whose page loads and whose evaluations succeed
NextLearn ==
    \/ Start
    \/ LearnEnter
    \/ Goto
    \/ LearnLabel
    \/ LearnReturn
    \/ SaveTemplate
    \/ ApplyEnter
    \/ ApplyLabel
    \/ ApplyReturn
    \/ WriteLabels

SpecLearn == InitLearn /\ [][NextLearn]_vars

\* ------------------------------------------------------------------------
\* Properties of SELECTOR_JS
\* ------------------------------------------------------------------------
\* the label the last evaluation of learn_selectors was for
Evaluated == call.fn = "learn" /\ call.at = "loop" /\ li > 1
TierOf(c) == containsNumberLike(c.elText, labels[li - 1].value_str, labels[li - 1].unit)

\* C2: no locator of a candidate has more than 6 structural segments
PathWithinCap ==
    Evaluated => \A i \in 1..Len(topk) : Len(topk[i].path) <= PathCap

\* C5: in the ranking every exact candidate stands before every partial one
ExactBeforePartial ==
    Evaluated =>
       \A i, j \in 1..Len(topk) :
          TierOf(topk[i]) = "exact" /\ TierOf(topk[j]) = "partial" => i < j

\* C3: learning on a page and applying to the same page gives, for every label
\* with a non-empty selector, the float of the value_str learned
RoundTrip ==
    /\ pc = "done"
    /\ learned = <<args.url>>
    /\ Len(applied) = 1
    /\ applied[1].url = args.url
    /\ glitched = {}
    => \A key \in DictKeys(template) :
          DictAt(template, key).selector # <<>> =>
             DictAt(results, key) = Some(ToFloat(labels[LastLine(key)].value_str))

====
